---- MODULE Spec2Model ----
(***************************************************************************)
(* Reminder scheduling and delivery pipeline of the Jaya_FE mobile client. *)
(*                                                                         *)
(* The model follows the JavaScript sources: ReminderService and           *)
(* StorageService (src/src/services/api.js), FirebaseNotificationService   *)
(* (src/unnamed/part_000), parseReminderTime (src/unnamed/part_003) and    *)
(* the chat screen's handleAlarmReminder (src/src/screens/ChatScreen.js).  *)
(*                                                                         *)
(* JavaScript runs one callback at a time; an async function gives up the  *)
(* thread at every await.  Each action below is one such uninterrupted     *)
(* piece of a call: the code from one await to the next, together with the *)
(* storage access or HTTP exchange the await was waiting for.  Calls that  *)
(* are in flight together interleave at these points.                      *)
(*                                                                         *)
(* Time is counted in milliseconds (Date.now()).  Record ids are           *)
(* Date.now().toString(), modelled by the number itself.  A remoteId or    *)
(* notificationId of 0 stands for null / a missing key, a token of         *)
(* 0 for null.                                                             *)
(***************************************************************************)
EXTENDS Integers, Sequences, FiniteSets, TLC

\* ------------------------------------------------------------------ bounds
\* Number of calls (of any operation) made during a run.
MaxCalls == 2
\* Number of times the application initializes the services.
MaxInits == 1
\* Number of calls in flight together.
MaxInFlight == 2
\* Last value of the millisecond clock.
MaxTime == 1
\* Number of token values the platform issues (the first one and refreshes).
MaxTokens == 2
\* Number of AsyncStorage writes that fail during a run.
MaxFaults == 1

Calls == 1..MaxCalls
\* The calls of initialize run under number 0, one after the other.
Startup == 0

\* ---------------------------------------------------- time expressions
\* parseReminderTime returns null when nothing matches.
NoTime == -1

SecondMs == 10 * 100
MinuteMs == 60 * SecondMs
HourMs == 60 * MinuteMs
DayMs == 24 * HourMs

\* What parseReminderTime looks at in its argument: whether it is a string at
\* all, which unit words it includes, the first run of digits (-1: none), the
\* instant new Date(timeString) gives (-1: Invalid Date), and the match of the
\* clock-time regular expression (<<>>: no match; <<h, m, ampm>>).
TimeExpr(isString, minute, hour, second, int, date, clock) ==
    [isString |-> isString, minute |-> minute, hour |-> hour, second |-> second,
     int |-> int, date |-> date, clock |-> clock]

\* parseInt(timeString.match(/\d+/)?.[0] || '0')
FirstInt(ts) == IF ts.int < 0 THEN 0 ELSE ts.int

\* An adjustment that would treat 12 like the other hours.
NaiveHours(h, ampm) == IF ampm = "PM" THEN h + 12 ELSE h

\* The 24-hour value of a clock match.
ClockHours(h, ampm) ==
    IF ampm = "PM" /\ h # 12 THEN h + 12
    ELSE IF ampm = "AM" /\ h = 12 THEN 0
    ELSE h

\* The device's time zone.  The getters and setters of Date that the parser
\* uses (getMinutes/setMinutes, getHours/setHours, getSeconds/setSeconds,
\* getDate/setDate) work on local time: an instant t is read as
\* LocalTime(t), changed there, and the result is converted back by UTC.
\* The zone of the model is one hour ahead of UTC and has daylight saving
\* time, one hour more, from DstStart to DstEnd; the session's clock starts
\* at 0, days before DstStart.
StdOffset == HourMs
DstStart == 2 * DayMs + HourMs
DstEnd == 4 * DayMs + HourMs

LocalTZA(t) ==
    IF DstStart <= t /\ t < DstEnd THEN StdOffset + HourMs ELSE StdOffset

LocalTime(t) == t + LocalTZA(t)

\* The instant of a local time.  A local time that occurs twice (the hour
\* repeated at DstEnd) is its first occurrence, one that does not occur (the
\* hour skipped at DstStart) is taken with the offset before the change.
UTC(l) ==
    LET dst == l - (StdOffset + HourMs)
    IN  IF DstStart <= dst /\ dst < DstEnd THEN dst ELSE l - StdOffset

\* d.setMinutes(d.getMinutes() + n) and the like on the instant t, delta
\* being n in milliseconds: the sum is made in local time.
SetLocal(t, delta) == UTC(LocalTime(t) + delta)

\* targetTime.setHours(hours, minutes, 0, 0), rolled to tomorrow when passed.
ClockTarget(clock, t) ==
    LET l == LocalTime(t)
        today == UTC((l - (l % DayMs)) + ClockHours(clock[1], clock[3]) * HourMs
                     + clock[2] * MinuteMs)
    IN  IF today <= t THEN SetLocal(today, DayMs) ELSE today

\* A Date holds at most 8.64e15 milliseconds: a setter given more leaves the
\* object an Invalid Date (time value NaN), which is neither an instant nor
\* null.
InvalidDate == -2

\* Every run of digits whose number, in any unit, is beyond that range.
Huge == 2147483647

\* d.setMinutes(d.getMinutes() + n) and the like for the n of the expression.
SetRelative(t, n, unitMs) ==
    IF n = Huge THEN InvalidDate ELSE SetLocal(t, n * unitMs)

\* An order of the forms that would try the absolute date first.
parseDateFirst(ts, t) ==
    IF ~ts.isString THEN NoTime
    ELSE IF ts.date >= 0 THEN ts.date
    ELSE IF ts.minute THEN SetRelative(t, FirstInt(ts), MinuteMs)
    ELSE IF ts.hour THEN SetRelative(t, FirstInt(ts), HourMs)
    ELSE IF ts.second THEN SetRelative(t, FirstInt(ts), SecondMs)
    ELSE IF ts.clock # <<>> THEN ClockTarget(ts.clock, t)
    ELSE NoTime

\* A value that is not a string has no includes method (or no match
\* method): the TypeError is caught and null returned.
parseReminderTime(ts, t) ==
    IF ~ts.isString THEN NoTime
    ELSE IF ts.minute THEN SetRelative(t, FirstInt(ts), MinuteMs)
    ELSE IF ts.hour THEN SetRelative(t, FirstInt(ts), HourMs)
    ELSE IF ts.second THEN SetRelative(t, FirstInt(ts), SecondMs)
    ELSE IF ts.date >= 0 THEN ts.date
    ELSE IF ts.clock # <<>> THEN ClockTarget(ts.clock, t)
    ELSE NoTime

\* The expressions handed to the scheduling calls of the model: one that
\* matches nothing, "0 seconds", and the directly parseable instants 1,
\* 2, ... (a past, a present or a future one, depending on the clock).
NoMatch == TimeExpr(TRUE, FALSE, FALSE, FALSE, -1, -1, <<>>)
ZeroSeconds == TimeExpr(TRUE, FALSE, FALSE, TRUE, 0, -1, <<>>)
DateAt(d) == TimeExpr(TRUE, FALSE, FALSE, FALSE, d, d, <<>>)
CallExprs == {NoMatch, ZeroSeconds} \cup {DateAt(d) : d \in 1..(MaxTime + 1)}

\* The comparison that would also accept the current instant.
NotPast(reminderTime, t) == reminderTime >= t

\* if (reminderTime <= now) throw ...
IsFuture(reminderTime, t) == reminderTime > t

\* ------------------------------------------------------------- records
\* reminderData as the calls build it.  method "absent": the object has no
\* method key (the chat screen's records).
Data(id, text, time, created, scheduled, method, remoteId, notificationId) ==
    [id |-> id, text |-> text, time |-> time, created |-> created,
     scheduled |-> scheduled, method |-> method, remoteId |-> remoteId,
     notificationId |-> notificationId]

NoData == Data(0, 0, 0, 0, FALSE, "absent", 0, 0)

\* ReminderService.scheduleReminder's reminderData; the text is the utterance
\* of call c.
NewReminderData(c, id, time, created) ==
    Data(id, c, time, created, FALSE, "none", 0, 0)

\* handleAlarmReminder's reminderData: no method, no remoteId, no created key
\* (the created held here is saveLocalReminder's default).
NewChatData(c, id, time, created) ==
    Data(id, c, time, created, FALSE, "absent", 0, 0)

\* A stored record: the data and, for the properties only, the call that
\* pushed it (by) and the number of its save among the saves made (seq).
Stored(d, c, n) ==
    [id |-> d.id, text |-> d.text, time |-> d.time, created |-> d.created,
     scheduled |-> d.scheduled, method |-> d.method, remoteId |-> d.remoteId,
     notificationId |-> d.notificationId, by |-> c, seq |-> n]

\* A lookup that takes the first record whatever its id.
FindFirst(reminders, id) == IF Len(reminders) > 0 THEN 1 ELSE 0

\* reminders.findIndex(r => r.id === id); 0 stands for -1.
FindIndex(reminders, id) ==
    IF \E i \in 1..Len(reminders) : reminders[i].id = id
    THEN CHOOSE i \in 1..Len(reminders) :
            /\ reminders[i].id = id
            /\ \A j \in 1..(i - 1) : reminders[j].id # id
    ELSE 0

\* { ...reminders[index], ...updatedReminder }: the keys reminderData has
\* replace the stored ones.  scheduleReminder's data has no notificationId,
\* the chat screen's has no created, method or remoteId.
MergeRecord(old, d, kind) ==
    IF kind = "chat"
    THEN [old EXCEPT !.id = d.id, !.text = d.text, !.time = d.time,
                     !.scheduled = d.scheduled,
                     !.notificationId = d.notificationId]
    ELSE [old EXCEPT !.id = d.id, !.text = d.text, !.time = d.time,
                     !.created = d.created, !.scheduled = d.scheduled,
                     !.method = d.method, !.remoteId = d.remoteId]

\* A save that would put the new record first.
UnshiftReminder(reminders, d, c, n) == <<Stored(d, c, n)>> \o reminders

\* saveLocalReminder: reminders.push(newReminder)
PushReminder(reminders, d, c, n) == Append(reminders, Stored(d, c, n))

\* updateLocalReminder: reminders[index] = merged
UpdateReminder(reminders, d, kind) ==
    LET i == FindIndex(reminders, d.id)
    IN  [reminders EXCEPT ![i] = MergeRecord(reminders[i], d, kind)]

\* removeLocalReminder: reminders.filter(r => r.id !== id)
RemoveReminder(reminders, id) ==
    LET Keep(r) == r.id # id IN SelectSeq(reminders, Keep)

\* ---------------------------------------------------------------- state
VARIABLES
    now,            \* the clock, Date.now()
    store,          \* AsyncStorage 'local_reminders', parsed: a list of records
    call,           \* the calls: operation, position, locals, result
    rsInit,         \* ReminderService.isInitialized
    fbInit,         \* FirebaseNotificationService.isInitialized
    fcmToken,       \* FirebaseNotificationService.fcmToken
    cachedToken,    \* AsyncStorage 'fcm_token'
    platformToken,  \* the token messaging() currently issues for the device
    listeners,      \* onTokenRefresh listeners registered so far
    handlers,       \* refresh handlers in flight: how many at each position
    backendToken,   \* push backend: the device token it has on file
    remote,         \* push backend: the remote ids of its scheduled reminders
    inits,          \* calls of initialize made so far
    deviceRegistered, \* AsyncStorage 'device_registered' is 'true'
    faults          \* AsyncStorage writes that have failed so far

vars == <<now, store, call, rsInit, fbInit, fcmToken, cachedToken,
          platformToken, listeners, handlers, backendToken, remote, inits,
          faults, deviceRegistered>>

tokenVars == <<rsInit, fbInit, fcmToken, cachedToken, platformToken,
               listeners, handlers, backendToken, deviceRegistered>>

\* A refresh handler awaits the write of the token it was given ("cache") or
\* the registration of the token it read from the service ("reg").
HandlerStates == {"cache", "reg"} \X (1..MaxTokens)

\* ------------------------------------------------ intent classification
\* What sendMessage gets from APIService.classifyIntent: status "ok" with
\* the fields of response.data (hasTime: intentResult.time is truthy;
\* confidence in hundredths), status "malformed" for data without these
\* fields, "missing" for no data at all (reading .success then throws),
\* "network_error" / "server_error" for the request that throws.
IntentResult(status, success, intent, hasTime, time, confidence) ==
    [status |-> status, success |-> success, intent |-> intent,
     hasTime |-> hasTime, time |-> time, confidence |-> confidence]

NoIntent == IntentResult("none", FALSE, "none", FALSE, NoMatch, 0)

\* The confidences the classifier answers with in the model: around the
\* threshold of 0.8.
Confidences == {79, 80, 81}

Classifications ==
    {IntentResult("ok", s, i, TRUE, e, k) :
        s \in BOOLEAN, i \in {"REMINDER", "CHAT"}, e \in CallExprs,
        k \in Confidences}
    \cup {IntentResult("ok", s, i, FALSE, NoMatch, k) :
        s \in BOOLEAN, i \in {"REMINDER", "CHAT"}, k \in Confidences}
    \cup {IntentResult(f, FALSE, "none", FALSE, NoMatch, 0) :
        f \in {"malformed", "missing", "network_error", "server_error"}}

\* The threshold of the Reminder path, 0.8, in hundredths.
Threshold == 80

\* A comparison that would leave the threshold itself out.
AboveThreshold(confidence) == confidence > Threshold

\* intentResult.confidence >= 0.8
MeetsThreshold(confidence) == confidence >= Threshold

\* intentResult.success && intentResult.intent === 'REMINDER' &&
\* intentResult.time && intentResult.confidence >= 0.8
RoutesToReminder(r) ==
    /\ r.status = "ok" /\ r.success
    /\ r.intent = "REMINDER"
    /\ r.hasTime
    /\ MeetsThreshold(r.confidence)

\* route: how sendMessage came to the handler that runs ("none": the handler
\* was called directly); chats: the requests sent to the chat backend for the
\* utterance; intent: the classification, kept for the step that routes.
IdleCall ==
    [kind |-> "none", pc |-> "idle", expr |-> NoMatch, target |-> 0,
     data |-> NoData, snap |-> <<>>, queue |-> <<>>, out |-> <<>>, tok |-> 0,
     flag |-> FALSE, res |-> "none", done |-> <<>>, seen |-> 0,
     route |-> "none", chats |-> 0, intent |-> NoIntent, saved |-> FALSE]

Init ==
    /\ now = 0
    /\ store = <<>>
    /\ call = [c \in {Startup} \cup Calls |-> IdleCall]
    /\ inits = 0
    /\ faults = 0
    /\ rsInit = FALSE
    /\ fbInit = FALSE
    /\ fcmToken = 0
    /\ cachedToken = 0
    /\ platformToken = 1
    /\ listeners = 0
    /\ handlers = [h \in HandlerStates |-> 0]
    /\ backendToken = 0
    /\ deviceRegistered = FALSE
    /\ remote = {}

\* The call has ended: it returned a result or threw.
Ended(c) == call[c].pc \in {"returned", "thrown"}

InFlight == {c \in {Startup} \cup Calls : call[c].pc # "idle" /\ ~Ended(c)}

\* The saves made so far: the calls whose new record has been written
\* (saved is kept to the end of the call, for the properties).
Saves == Cardinality({c \in Calls : call[c].saved})

\* Calls are made in the order of their numbers.
CanStart(c) ==
    /\ call[c].pc = "idle"
    /\ Cardinality(InFlight) < MaxInFlight
    /\ IF c = 1 THEN TRUE ELSE call[c - 1].pc # "idle"

\* The token the platform had issued last when a scheduleReminder call
\* returned; a call in flight has the one of its begin until it has saved
\* its record (history, for the properties about refreshes between calls).
IssuedAt(cl) == IF cl.kind = "schedule" THEN platformToken ELSE 0

\* How a call ends: with a result or an error.  Of its arguments and locals
\* only the id of its record is kept, for the properties; the route and the
\* chat requests belong to the sendMessage that called the handler.
Return(cl, res) ==
    [IdleCall EXCEPT !.kind = cl.kind, !.pc = "returned", !.res = res,
                     !.data.id = cl.data.id, !.seen = IssuedAt(cl),
                     !.route = cl.route, !.chats = cl.chats,
                     !.saved = cl.saved]
Throw(cl, err) ==
    [IdleCall EXCEPT !.kind = cl.kind, !.pc = "thrown", !.res = err,
                     !.data.id = cl.data.id,
                     !.route = cl.route, !.chats = cl.chats,
                     !.saved = cl.saved]

\* AsyncStorage.setItem: the write is done, or it fails and throws.
WriteDone == UNCHANGED faults
WriteFails == faults < MaxFaults /\ faults' = faults + 1

\* FirebaseNotificationService.isReady
isReady == fbInit /\ fcmToken # 0

\* --------------------------------------------------------------- clock
Tick ==
    /\ now < MaxTime
    /\ now' = now + 1
    /\ UNCHANGED <<store, call, tokenVars, remote, inits, faults>>

\* ------------------------------------- ReminderService.scheduleReminder
\* reminderData.scheduled = true; method = 'firebase_push'; remoteId = ...
PushScheduled(d, remoteId) ==
    [d EXCEPT !.scheduled = TRUE, !.method = "firebase_push",
              !.remoteId = remoteId]

\* reminderData.scheduled = false; reminderData.method = 'local_only'
LocalOnly(d) == [d EXCEPT !.scheduled = FALSE, !.method = "local_only"]

\* The order in which the request would come first.
RequestFirst == "s_remote"

\* Where scheduleReminder goes once the time is accepted: it saves the record
\* before anything else.
AfterAccept == "s_save_read"

\* A rejection that would end the call without an error.
Dropped(cl, err) == [Return(cl, "none") EXCEPT !.expr = cl.expr]

\* throw new Error('Invalid time format') / ('Reminder time must be in the
\* future'): the call ends at once; its time expression is kept for the
\* properties.
Rejected(cl, err) == [Throw(cl, err) EXCEPT !.expr = cl.expr]

\* The call starts: the time is parsed and checked, the id is taken from the
\* clock; then it awaits getUserId.
SchedBegin(c) ==
    /\ CanStart(c)
    /\ \E e \in CallExprs :
        LET t == parseReminderTime(e, now)
            cl == [IdleCall EXCEPT !.kind = "schedule", !.expr = e,
                                   !.seen = platformToken]
        IN  call' = [call EXCEPT ![c] =
                IF t = NoTime THEN Rejected(cl, "InvalidTimeFormat")
                ELSE IF ~IsFuture(t, now) THEN Rejected(cl, "TimeNotFuture")
                ELSE [cl EXCEPT !.pc = AfterAccept,
                                !.data = NewReminderData(c, now, t, 0)]]
    /\ UNCHANGED <<now, store, tokenVars, remote, inits, faults>>

\* created is taken from the clock after the await; saveLocalReminder reads the
\* collection.
SchedSaveRead(c) ==
    /\ call[c].kind = "schedule" /\ call[c].pc = "s_save_read"
    /\ call' = [call EXCEPT ![c].pc = "s_save_write",
                            ![c].data.created = now,
                            ![c].snap = store]
    /\ UNCHANGED <<now, store, tokenVars, remote, inits, faults>>

\* After the save: the push path when both services are ready (the token is
\* put in the payload here, before the await of getUserId), else local-only.
AfterSave(cl) ==
    IF rsInit /\ isReady
    THEN [cl EXCEPT !.pc = "s_remote", !.tok = fcmToken, !.snap = <<>>,
                    !.seen = 0]
    ELSE [cl EXCEPT !.pc = "s_fb_read", !.data = LocalOnly(cl.data),
                    !.snap = <<>>, !.seen = 0]

\* saveLocalReminder writes the collection it read plus the new record; a
\* failed write is rethrown.
SchedSaveWrite(c) ==
    /\ call[c].kind = "schedule" /\ call[c].pc = "s_save_write"
    /\ \/ /\ WriteDone
          /\ store' = PushReminder(call[c].snap, call[c].data, c, Saves + 1)
          /\ call' = [call EXCEPT ![c] =
                        AfterSave([call[c] EXCEPT !.saved = TRUE])]
       \/ /\ WriteFails
          /\ call' = [call EXCEPT ![c] = Throw(call[c], "StorageError")]
          /\ UNCHANGED store
    /\ UNCHANGED <<now, tokenVars, remote, inits>>

\* The inner catch: whatever fails on the push path continues with local-only.
\* The token of a request that failed stays with the call until the fallback
\* has read the collection (history, for the properties).
Fallback(cl) ==
    [cl EXCEPT !.pc = "s_fb_read", !.data = LocalOnly(cl.data),
               !.snap = <<>>]

\* POST /firebase/schedule-reminder and its answer.  The backend names the
\* reminder it accepts by a new remote id (the call's number).
SchedRemote(c) ==
    /\ call[c].kind = "schedule" /\ call[c].pc = "s_remote"
    /\ \/ /\ remote' = remote \cup {c}
          /\ call' = [call EXCEPT ![c].pc = "s_ok_read", ![c].tok = 0,
                                  ![c].data = PushScheduled(call[c].data, c)]
       \/ /\ call' = [call EXCEPT ![c] = Fallback(call[c])]
          /\ UNCHANGED remote
    /\ UNCHANGED <<now, store, tokenVars, inits, faults>>

\* updateLocalReminder on the push path reads the collection; an unknown id
\* throws inside the inner try.
SchedOkRead(c) ==
    /\ call[c].kind = "schedule" /\ call[c].pc = "s_ok_read"
    /\ call' = [call EXCEPT ![c] =
            IF FindIndex(store, call[c].data.id) # 0
            THEN [call[c] EXCEPT !.pc = "s_ok_write", !.snap = store]
            ELSE Fallback(call[c])]
    /\ UNCHANGED <<now, store, tokenVars, remote, inits, faults>>

SchedOkWrite(c) ==
    /\ call[c].kind = "schedule" /\ call[c].pc = "s_ok_write"
    /\ \/ /\ WriteDone
          /\ store' = UpdateReminder(call[c].snap, call[c].data, "schedule")
          /\ call' = [call EXCEPT ![c] = Return(call[c], "firebase_push")]
       \/ /\ WriteFails
          /\ call' = [call EXCEPT ![c] = Fallback(call[c])]
          /\ UNCHANGED store
    /\ UNCHANGED <<now, tokenVars, remote, inits>>

\* updateLocalReminder of the fallback; here an unknown id or a failed write
\* leaves the call through the outer catch.
SchedFbRead(c) ==
    /\ call[c].kind = "schedule" /\ call[c].pc = "s_fb_read"
    /\ call' = [call EXCEPT ![c] =
            IF FindIndex(store, call[c].data.id) # 0
            THEN [call[c] EXCEPT !.pc = "s_fb_write", !.snap = store,
                                 !.tok = 0]
            ELSE Throw(call[c], "NotFound")]
    /\ UNCHANGED <<now, store, tokenVars, remote, inits, faults>>

SchedFbWrite(c) ==
    /\ call[c].kind = "schedule" /\ call[c].pc = "s_fb_write"
    /\ \/ /\ WriteDone
          /\ store' = UpdateReminder(call[c].snap, call[c].data, "schedule")
          /\ call' = [call EXCEPT ![c] = Return(call[c], "local_only")]
       \/ /\ WriteFails
          /\ call' = [call EXCEPT ![c] = Throw(call[c], "StorageError")]
          /\ UNCHANGED store
    /\ UNCHANGED <<now, tokenVars, remote, inits>>

\* --------------------------------------- ReminderService.cancelReminder
\* reminder.method === 'firebase_push' && reminder.remoteId
HasRemote(r) == r.method = "firebase_push" /\ r.remoteId # 0

\* A cancellation that gives up when the remote side fails.
StrictRemoteCancel(cl, canceled) ==
    IF canceled
    THEN [cl EXCEPT !.pc = "c_rm_read", !.flag = TRUE, !.tok = 0]
    ELSE Throw(cl, "RemoteCancelFailed")

\* After the remote cancellation, whatever its outcome (a failure is caught
\* and logged), the record is removed from local storage.
AfterRemoteCancel(cl, canceled) ==
    [cl EXCEPT !.pc = "c_rm_read", !.flag = canceled, !.tok = 0]

\* The call starts and looks the record up in the collection it reads.  With
\* a remote reminder it goes on to cancel it (the token is put in the request
\* here, before the await of getUserId).
CancelBegin(c) ==
    /\ CanStart(c)
    /\ \E id \in 0..MaxTime :
        LET i == FindIndex(store, id)
            cl == [IdleCall EXCEPT !.kind = "cancel", !.target = id]
        IN  call' = [call EXCEPT ![c] =
                IF i = 0 THEN Throw(cl, "NotFound")
                ELSE IF HasRemote(store[i])
                THEN [cl EXCEPT !.pc = "c_remote", !.tok = fcmToken,
                                !.data.method = store[i].method,
                                !.data.remoteId = store[i].remoteId]
                ELSE [cl EXCEPT !.pc = "c_rm_read",
                                !.data.method = store[i].method]]
    /\ UNCHANGED <<now, store, tokenVars, remote, inits, faults>>

\* POST /firebase/cancel-reminder and its answer.
CancelRemote(c) ==
    /\ call[c].kind = "cancel" /\ call[c].pc = "c_remote"
    /\ \/ /\ remote' = remote \ {call[c].data.remoteId}
          /\ call' = [call EXCEPT ![c] = AfterRemoteCancel(call[c], TRUE)]
       \/ /\ call' = [call EXCEPT ![c] = AfterRemoteCancel(call[c], FALSE)]
          /\ UNCHANGED remote
    /\ UNCHANGED <<now, store, tokenVars, inits, faults>>

\* removeLocalReminder reads the collection ...
CancelRmRead(c) ==
    /\ call[c].kind = "cancel" /\ call[c].pc = "c_rm_read"
    /\ call' = [call EXCEPT ![c].pc = "c_rm_write", ![c].snap = store]
    /\ UNCHANGED <<now, store, tokenVars, remote, inits, faults>>

\* A result that reports the remote side by the record's method alone.
CancelResultByMethod(cl) ==
    Return(cl, IF cl.data.method = "firebase_push"
               THEN "canceled_remote" ELSE "canceled_local")

\* The result of cancelReminder: { success: true, canceledRemote, method }.
CancelResult(cl) ==
    Return(cl,
           IF cl.flag THEN "canceled_remote" ELSE "canceled_local")

\* ... and writes it back without the record; a failed write is logged only.
CancelRmWrite(c) ==
    /\ call[c].kind = "cancel" /\ call[c].pc = "c_rm_write"
    /\ \/ /\ WriteDone
          /\ store' = RemoveReminder(call[c].snap, call[c].target)
       \/ /\ WriteFails
          /\ UNCHANGED store
    /\ call' = [call EXCEPT ![c] = CancelResult(call[c])]
    /\ UNCHANGED <<now, tokenVars, remote, inits>>

\* ----------------------------------------- ReminderService.getReminders
\* reminders.filter(reminder => new Date(reminder.time) > now)
ActiveReminders(reminders, t) ==
    LET Active(r) == r.time > t IN SelectSeq(reminders, Active)

\* reminders.filter(reminder => new Date(reminder.time) <= now)
ExpiredReminders(reminders, t) ==
    LET Expired(r) == r.time <= t IN SelectSeq(reminders, Expired)

\* return activeReminders: of the call, its result (out), the time it read
\* (target) and the ids it removed (done) are kept for the properties.
ListReturn(cl) ==
    [Return(cl, "active") EXCEPT !.out = cl.out, !.target = cl.target,
                                 !.done = cl.done]

\* The call reads the collection and the time (target) and splits the
\* collection; the active records are its result (out), the ids of the
\* expired ones are removed one after the other.
ListBegin(c) ==
    /\ CanStart(c)
    /\ LET expired == ExpiredReminders(store, now)
           cl == [IdleCall EXCEPT !.kind = "list", !.target = now,
                                  !.out = ActiveReminders(store, now)]
       IN  call' = [call EXCEPT ![c] =
               IF expired = <<>>
               THEN ListReturn(cl)
               ELSE [cl EXCEPT !.pc = "l_rm_read",
                               !.queue = [i \in 1..Len(expired) |-> expired[i].id]]]
    /\ UNCHANGED <<now, store, tokenVars, remote, inits, faults>>

ListRmRead(c) ==
    /\ call[c].kind = "list" /\ call[c].pc = "l_rm_read"
    /\ call' = [call EXCEPT ![c].pc = "l_rm_write", ![c].snap = store]
    /\ UNCHANGED <<now, store, tokenVars, remote, inits, faults>>

\* removeLocalReminder writes the collection back without the record (a
\* failed write is logged only); the loop goes on to the next expired id, and
\* after the last one the call returns the active records.
ListRmWrite(c) ==
    /\ call[c].kind = "list" /\ call[c].pc = "l_rm_write"
    /\ \/ /\ WriteDone
          /\ store' = RemoveReminder(call[c].snap, Head(call[c].queue))
       \/ /\ WriteFails
          /\ UNCHANGED store
    /\ LET cl == [call[c] EXCEPT !.done = Append(@, Head(call[c].queue))]
       IN  call' = [call EXCEPT ![c] =
               IF Tail(cl.queue) = <<>>
               THEN ListReturn(cl)
               ELSE [cl EXCEPT !.pc = "l_rm_read", !.snap = <<>>,
                               !.queue = Tail(cl.queue)]]
    /\ UNCHANGED <<now, tokenVars, remote, inits>>

\* A handler that would announce a scheduled notification whatever happened.
AlwaysScheduled(cl, scheduleSuccess) == Return(cl, "reminder_scheduled")

\* ------------------------------------ ChatScreen.handleAlarmReminder
\* The handler's ends: the assistant message tells whether the notification
\* was scheduled (reminderScheduled).
ChatDone(cl, scheduleSuccess) ==
    Return(cl, IF scheduleSuccess THEN "reminder_scheduled" ELSE "reminder_saved")

\* The handler starts with the time expression cl.expr: a time that does not
\* parse throws, one that is not in the future is answered by an alert and a
\* plain return.  flag is Device.isDevice.
handleAlarmReminder(cl, c, isDevice) ==
    LET t == parseReminderTime(cl.expr, now)
    IN  IF t = NoTime THEN Throw(cl, "InvalidTimeFormat")
        ELSE IF ~IsFuture(t, now) THEN Return(cl, "invalid_time_alert")
        ELSE [cl EXCEPT !.pc = "h_save_read", !.flag = isDevice,
                        !.data = NewChatData(c, now, t, 0)]

\* handleAlarmReminder called with some time expression.
ChatBegin(c) ==
    /\ CanStart(c)
    /\ \E e \in CallExprs, isDevice \in BOOLEAN :
        call' = [call EXCEPT ![c] =
            handleAlarmReminder([IdleCall EXCEPT !.kind = "chat", !.expr = e],
                                c, isDevice)]
    /\ UNCHANGED <<now, store, tokenVars, remote, inits, faults>>

\* saveLocalReminder reads the collection; created is its own default.
ChatSaveRead(c) ==
    /\ call[c].kind = "chat" /\ call[c].pc = "h_save_read"
    /\ call' = [call EXCEPT ![c].pc = "h_save_write",
                            ![c].data.created = now,
                            ![c].snap = store]
    /\ UNCHANGED <<now, store, tokenVars, remote, inits, faults>>

\* After the save: on a device scheduleNotification is called, which throws
\* at once for a time that has passed by now.
AfterChatSave(cl, t) ==
    IF ~cl.flag THEN ChatDone(cl, FALSE)
    ELSE IF cl.data.time <= t THEN ChatDone(cl, FALSE)
    ELSE [cl EXCEPT !.pc = "h_notify", !.snap = <<>>]

ChatSaveWrite(c) ==
    /\ call[c].kind = "chat" /\ call[c].pc = "h_save_write"
    /\ \/ /\ WriteDone
          /\ store' = PushReminder(call[c].snap, call[c].data, c, Saves + 1)
          /\ call' = [call EXCEPT ![c] =
                        AfterChatSave([call[c] EXCEPT !.saved = TRUE], now)]
       \/ /\ WriteFails
          /\ call' = [call EXCEPT ![c] = Throw(call[c], "StorageError")]
          /\ UNCHANGED store
    /\ UNCHANGED <<now, tokenVars, remote, inits>>

\* reminderData.notificationId = notificationId; reminderData.scheduled = true
NotificationScheduled(d, notificationId) ==
    [d EXCEPT !.notificationId = notificationId, !.scheduled = TRUE]

\* Notifications.scheduleNotificationAsync: an identifier (the call's number)
\* or a failure, which the inner catch logs.
ChatNotify(c) ==
    /\ call[c].kind = "chat" /\ call[c].pc = "h_notify"
    /\ \/ call' = [call EXCEPT ![c].pc = "h_upd_read",
                               ![c].data = NotificationScheduled(call[c].data, c)]
       \/ call' = [call EXCEPT ![c] = ChatDone(call[c], FALSE)]
    /\ UNCHANGED <<now, store, tokenVars, remote, inits, faults>>

ChatUpdRead(c) ==
    /\ call[c].kind = "chat" /\ call[c].pc = "h_upd_read"
    /\ call' = [call EXCEPT ![c] =
            IF FindIndex(store, call[c].data.id) # 0
            THEN [call[c] EXCEPT !.pc = "h_upd_write", !.snap = store]
            ELSE ChatDone(call[c], FALSE)]
    /\ UNCHANGED <<now, store, tokenVars, remote, inits, faults>>

ChatUpdWrite(c) ==
    /\ call[c].kind = "chat" /\ call[c].pc = "h_upd_write"
    /\ \/ /\ WriteDone
          /\ store' = UpdateReminder(call[c].snap, call[c].data, "chat")
          /\ call' = [call EXCEPT ![c] = ChatDone(call[c], TRUE)]
       \/ /\ WriteFails
          /\ call' = [call EXCEPT ![c] = ChatDone(call[c], FALSE)]
          /\ UNCHANGED store
    /\ UNCHANGED <<now, tokenVars, remote, inits>>

\* ------------------------------------------- registerWithBackend
\* POST /firebase/register-device with the token put in the request, and its
\* answer: on success the backend has the token on file and
\* AsyncStorage.setItem('device_registered', 'true') follows; a failed
\* request, a refusal or a failed write is logged only.
registerWithBackend(token) ==
    \/ /\ backendToken' = token
       /\ WriteDone
       /\ deviceRegistered' = TRUE
    \/ /\ backendToken' = token
       /\ WriteFails
       /\ UNCHANGED deviceRegistered
    \/ UNCHANGED <<backendToken, deviceRegistered, faults>>

\* -------------------------------- initialize (both services)
\* The end of FirebaseNotificationService.initialize and of
\* ReminderService.initialize, which takes over its answer.
InitSucceeds ==
    /\ fbInit' = TRUE
    /\ rsInit' = TRUE
    /\ call' = [call EXCEPT ![Startup] = Return(call[Startup], "true")]

\* After getFCMToken: setupMessageHandlers adds a token-refresh listener, and
\* a token held by the service is registered (again).
InitHandlers ==
    /\ listeners' = listeners + 1
    /\ IF fcmToken # 0
       THEN /\ call' = [call EXCEPT ![Startup].pc = "i_reg2", ![Startup].tok = fcmToken]
            /\ UNCHANGED <<fbInit, rsInit>>
       ELSE InitSucceeds

\* The application calls ReminderService.initialize, which starts with
\* requestPermission; a denial ends both initializations
\* with false.  With the permission, getFCMToken reads the cached token
\* (target) and asks messaging() for the token.
Initialize(limit) ==
    /\ call[Startup].pc \in {"idle", "returned"}
    /\ Cardinality(InFlight) < MaxInFlight
    /\ inits < limit
    /\ inits' = inits + 1
    /\ \/ /\ fbInit' = FALSE
          /\ rsInit' = FALSE
          /\ call' = [call EXCEPT ![Startup] =
                Return([IdleCall EXCEPT !.kind = "init"], "false")]
       \/ /\ call' = [call EXCEPT ![Startup] =
                [IdleCall EXCEPT !.kind = "init", !.pc = "i_token",
                                 !.target = cachedToken]]
          /\ UNCHANGED <<fbInit, rsInit>>
    /\ UNCHANGED <<now, store, fcmToken, cachedToken, platformToken, listeners,
                   handlers, backendToken, remote, faults, deviceRegistered>>

\* initialize is called, at most MaxInits times.
InitBegin == Initialize(MaxInits)

\* initialize is called, possibly once more than that (nothing in the code
\* keeps an initialized service from being initialized again).
InitAgain == Initialize(MaxInits + 1)

\* messaging().getToken() answers with the device's token of that moment
\* (tok), or fails, after which getFCMToken returns null and initialize goes
\* on.
InitToken ==
    /\ call[Startup].kind = "init" /\ call[Startup].pc = "i_token"
    /\ \/ /\ call' = [call EXCEPT ![Startup].pc = "i_cache",
                                  ![Startup].tok = platformToken]
          /\ UNCHANGED <<fbInit, rsInit, listeners>>
       \/ InitHandlers
    /\ UNCHANGED <<now, store, fcmToken, cachedToken, platformToken, handlers,
                   backendToken, remote, inits, faults, deviceRegistered>>

\* getFCMToken goes on: this.fcmToken = token, and
\* AsyncStorage.setItem('fcm_token', token).  A token that differs from the
\* cached one is registered: registerWithBackend puts the service's token in
\* the request before it awaits getUserId.  A failed write ends getFCMToken.
InitCache ==
    /\ call[Startup].kind = "init" /\ call[Startup].pc = "i_cache"
    /\ fcmToken' = call[Startup].tok
    /\ \/ /\ WriteDone
          /\ cachedToken' = call[Startup].tok
          /\ IF call[Startup].target # call[Startup].tok
             THEN /\ call' = [call EXCEPT ![Startup].pc = "i_reg1"]
                  /\ UNCHANGED <<fbInit, rsInit, listeners>>
             ELSE /\ listeners' = listeners + 1
                  /\ call' = [call EXCEPT ![Startup].pc = "i_reg2"]
                  /\ UNCHANGED <<fbInit, rsInit>>
       \/ /\ WriteFails
          /\ listeners' = listeners + 1
          /\ call' = [call EXCEPT ![Startup].pc = "i_reg2"]
          /\ UNCHANGED <<fbInit, rsInit, cachedToken>>
    /\ UNCHANGED <<now, store, platformToken, handlers, backendToken,
                   remote, inits, deviceRegistered>>

\* POST /firebase/register-device from getFCMToken; a failure is logged only.
InitReg1 ==
    /\ call[Startup].kind = "init" /\ call[Startup].pc = "i_reg1"
    /\ registerWithBackend(call[Startup].tok)
    /\ InitHandlers
    /\ UNCHANGED <<now, store, fcmToken, cachedToken, platformToken, handlers,
                   remote, inits>>

\* POST /firebase/register-device from initialize; a failure is logged only.
InitReg2 ==
    /\ call[Startup].kind = "init" /\ call[Startup].pc = "i_reg2"
    /\ registerWithBackend(call[Startup].tok)
    /\ InitSucceeds
    /\ UNCHANGED <<now, store, fcmToken, cachedToken, platformToken, listeners,
                   handlers, remote, inits>>

\* ------------------------------------------------- token refresh
\* The platform issues a new token.  Every listener takes it over as the
\* service's token at once and then awaits the write to the cache.
Refresh ==
    /\ platformToken < MaxTokens
    /\ platformToken' = platformToken + 1
    /\ IF listeners > 0
       THEN /\ fcmToken' = platformToken + 1
            /\ handlers' = [handlers EXCEPT
                    ![<<"cache", platformToken + 1>>] = @ + listeners]
       ELSE UNCHANGED <<fcmToken, handlers>>
    /\ UNCHANGED <<now, store, call, rsInit, fbInit, cachedToken, listeners,
                   backendToken, remote, inits, faults, deviceRegistered>>

\* A handler's write of its token to the cache; then registerWithBackend puts
\* the service's token in the request.  A failed write ends the handler.
HandlerCache(h) ==
    /\ h[1] = "cache" /\ handlers[h] > 0
    /\ \/ /\ WriteDone
          /\ cachedToken' = h[2]
          /\ handlers' = [handlers EXCEPT ![h] = @ - 1,
                                          ![<<"reg", fcmToken>>] = @ + 1]
       \/ /\ WriteFails
          /\ handlers' = [handlers EXCEPT ![h] = @ - 1]
          /\ UNCHANGED cachedToken
    /\ UNCHANGED <<now, store, call, rsInit, fbInit, fcmToken, platformToken,
                   listeners, backendToken, remote, inits, deviceRegistered>>

\* A handler that would stay to send its registration again.
RetryRegistration(hs, h) == hs

\* The handler ends after its registerWithBackend, whatever the outcome.
HandlerDone(hs, h) == [hs EXCEPT ![h] = @ - 1]

\* A handler's POST /firebase/register-device; a failure is logged only.
HandlerRegister(h) ==
    /\ h[1] = "reg" /\ handlers[h] > 0
    /\ registerWithBackend(h[2])
    /\ handlers' = HandlerDone(handlers, h)
    /\ UNCHANGED <<now, store, call, rsInit, fbInit, fcmToken, cachedToken,
                   platformToken, listeners, remote, inits>>

Next ==
    \/ Tick
    \/ InitBegin
    \/ InitToken
    \/ InitCache
    \/ InitReg1
    \/ InitReg2
    \/ Refresh
    \/ \E h \in HandlerStates :
        \/ HandlerCache(h)
        \/ HandlerRegister(h)
    \/ \E c \in Calls :
        \/ SchedBegin(c)
        \/ SchedSaveRead(c)
        \/ SchedSaveWrite(c)
        \/ SchedRemote(c)
        \/ SchedOkRead(c)
        \/ SchedOkWrite(c)
        \/ SchedFbRead(c)
        \/ SchedFbWrite(c)
        \/ CancelBegin(c)
        \/ CancelRemote(c)
        \/ CancelRmRead(c)
        \/ CancelRmWrite(c)
        \/ ListBegin(c)
        \/ ListRmRead(c)
        \/ ListRmWrite(c)
        \/ ChatBegin(c)
        \/ ChatSaveRead(c)
        \/ ChatSaveWrite(c)
        \/ ChatNotify(c)
        \/ ChatUpdRead(c)
        \/ ChatUpdWrite(c)

Spec == Init /\ [][Next]_vars

\* ------------------------------------------------ ChatScreen.sendMessage
\* The user sends an utterance; nothing is sent while loading is set, that
\* is, while an earlier sendMessage has not finished.  The call awaits
\* classifyIntent.
SendBegin(c) ==
    /\ CanStart(c)
    /\ \A o \in Calls : call[o].pc \in {"idle", "returned"}
    /\ call' = [call EXCEPT ![c] =
            [IdleCall EXCEPT !.kind = "send", !.pc = "r_classify"]]
    /\ UNCHANGED <<now, store, tokenVars, remote, inits, faults>>

\* A classifier that fails would end sendMessage with its error.
GiveUp(cl, r) == [Throw(cl, r.status) EXCEPT !.intent = r]

\* The outer catch, and the else branch: handleNormalChat for the utterance.
ToChat(cl, r) ==
    [cl EXCEPT !.pc = "r_chat", !.intent = r,
               !.route = IF r.status = "ok" THEN "chat" ELSE "outage"]

\* The answer of classifyIntent, or its failure, and the routing.  On the
\* Reminder path handleAlarmReminder starts with intentResult.time.
Classify(c) ==
    /\ call[c].kind = "send" /\ call[c].pc = "r_classify"
    /\ \E r \in Classifications, isDevice \in BOOLEAN :
        call' = [call EXCEPT ![c] =
            IF RoutesToReminder(r)
            THEN [handleAlarmReminder(
                    [IdleCall EXCEPT !.kind = "chat", !.expr = r.time,
                                     !.route = "reminder"], c, isDevice)
                  EXCEPT !.intent = r]
            ELSE ToChat(call[c], r)]
    /\ UNCHANGED <<now, store, tokenVars, remote, inits, faults>>

\* handleAlarmReminder has thrown: sendMessage's inner catch calls
\* handleNormalChat for the same utterance.
RouterFallback(c) ==
    /\ call[c].kind = "chat" /\ call[c].pc = "thrown"
    /\ call[c].route = "reminder"
    /\ call' = [call EXCEPT ![c].kind = "send", ![c].pc = "r_chat",
                            ![c].route = "fallback",
                            ![c].intent = NoIntent]
    /\ UNCHANGED <<now, store, tokenVars, remote, inits, faults>>

\* handleNormalChat: one request to the chat backend; its answer is shown,
\* and so is its error, which does not leave the handler.
NormalChat(c) ==
    /\ call[c].kind = "send" /\ call[c].pc = "r_chat"
    /\ \E answer \in {"chat_answer", "chat_error"} :
        call' = [call EXCEPT ![c] =
            [Return(call[c], answer) EXCEPT !.chats = call[c].chats + 1,
                                            !.intent = call[c].intent]]
    /\ UNCHANGED <<now, store, tokenVars, remote, inits, faults>>

\* The chat screen alone: utterances sent one after the other, classified
\* and routed to handleAlarmReminder or to handleNormalChat.
NextRouter ==
    \/ Tick
    \/ \E c \in Calls :
        \/ SendBegin(c)
        \/ Classify(c)
        \/ RouterFallback(c)
        \/ NormalChat(c)
        \/ ChatSaveRead(c)
        \/ ChatSaveWrite(c)
        \/ ChatNotify(c)
        \/ ChatUpdRead(c)
        \/ ChatUpdWrite(c)

SpecRouter == Init /\ [][NextRouter]_vars

\* ------------------------------------------------ the notification service alone
\* initialize, called once or again, the platform's token refreshes and the
\* onTokenRefresh handlers; no reminder is scheduled.
NextRefresh ==
    \/ InitAgain
    \/ InitToken
    \/ InitCache
    \/ InitReg1
    \/ InitReg2
    \/ Refresh
    \/ \E h \in HandlerStates :
        \/ HandlerCache(h)
        \/ HandlerRegister(h)

SpecRefresh == Init /\ [][NextRefresh]_vars

\* ------------------------------------------------ parseReminderTime alone
\* "N minutes", "N hours", "N seconds".
Relative(unit, n) ==
    TimeExpr(TRUE, unit = "minute", unit = "hour", unit = "second", n, -1, <<>>)

Units == {"minute", "hour", "second"}

\* The milliseconds of a unit.
UnitMs(unit) ==
    IF unit = "minute" THEN MinuteMs
    ELSE IF unit = "hour" THEN HourMs
    ELSE SecondMs

\* The numbers N of the expressions parsed in the model.
ParseCounts == {0, 1, 2, 90}

ParseExprs == {Relative(u, n) : u \in Units, n \in ParseCounts}

\* 13:00 local time on a day that is days away from the changes of the
\* zone's offset.
OrdinaryInstant == 6 * DayMs + 12 * HourMs

\* The instants at which the parser is called: on an ordinary day, and half
\* an hour before and after each change of the zone's offset.
ParseInstants ==
    {OrdinaryInstant,
     DstStart - 30 * MinuteMs, DstStart + 30 * MinuteMs,
     DstEnd - 30 * MinuteMs, DstEnd + 30 * MinuteMs}

\* The session at one of these instants.
InitParse ==
    /\ now \in ParseInstants
    /\ store = <<>>
    /\ call = [c \in {Startup} \cup Calls |-> IdleCall]
    /\ inits = 0
    /\ faults = 0
    /\ rsInit = FALSE
    /\ fbInit = FALSE
    /\ fcmToken = 0
    /\ cachedToken = 0
    /\ platformToken = 1
    /\ listeners = 0
    /\ handlers = [h \in HandlerStates |-> 0]
    /\ backendToken = 0
    /\ deviceRegistered = FALSE
    /\ remote = {}

\* "H:MM", "H:MM AM", "H:MM PM" (any case): the first digits are the hour.
Clock(h, m, ampm) == TimeExpr(TRUE, FALSE, FALSE, FALSE, h, -1, <<h, m, ampm>>)

\* The clock times parsed in the model: midnight, the hour that daylight
\* saving skips, noon, the hour of the ordinary day's instant and the last
\* of the day, with and without AM/PM.
ClockExprs ==
    {Clock(h, m, "") : h \in {0, 2, 12, 13, 23}, m \in {0, 30}}
    \cup {Clock(h, 0, ampm) : h \in {1, 2, 11, 12}, ampm \in {"AM", "PM"}}

\* Expressions that match more than one form, each form with a result of
\* its own ("5 minutes 2026-11-04 14:30" and the like), "N hours" with a
\* number beyond the range of Date, the string that matches nothing and a
\* value that is not a string (isString FALSE: a number, null, undefined).
MixedExprs ==
    {TimeExpr(TRUE, TRUE, FALSE, FALSE, 5, 9 * DayMs, <<14, 30, "">>),
     TimeExpr(TRUE, TRUE, TRUE, TRUE, 5, -1, <<>>),
     TimeExpr(TRUE, FALSE, TRUE, FALSE, 5, 9 * DayMs, <<>>),
     TimeExpr(TRUE, FALSE, FALSE, TRUE, 5, -1, <<14, 30, "">>),
     TimeExpr(TRUE, FALSE, FALSE, FALSE, 2026, 9 * DayMs, <<14, 30, "">>),
     TimeExpr(TRUE, FALSE, FALSE, FALSE, 2026, 9 * DayMs, <<>>),
     TimeExpr(TRUE, TRUE, FALSE, FALSE, -1, -1, <<>>),
     TimeExpr(TRUE, FALSE, TRUE, FALSE, Huge, -1, <<>>),
     NoMatch,
     TimeExpr(FALSE, FALSE, FALSE, FALSE, -1, -1, <<>>)}

ParseInputs == ParseExprs \cup ClockExprs \cup MixedExprs

\* parseReminderTime is called with one of these inputs; the call keeps the
\* instant of the call (data.created), what is returned (data.time) and,
\* for a clock match, the local variable hours (target).
ParseCall(c) ==
    /\ CanStart(c)
    /\ \E e \in ParseInputs :
        call' = [call EXCEPT ![c] =
            [IdleCall EXCEPT !.kind = "parse", !.pc = "returned", !.expr = e,
                             !.data.created = now,
                             !.data.time = parseReminderTime(e, now),
                             !.target = IF e.clock # <<>>
                                        THEN ClockHours(e.clock[1], e.clock[3])
                                        ELSE 0]]
    /\ UNCHANGED <<now, store, tokenVars, remote, inits, faults>>

NextParse == \E c \in Calls : ParseCall(c)

SpecParse == InitParse /\ [][NextParse]_vars

\* A record that an earlier session of the application left in AsyncStorage
\* (by 0: none of this session's calls); its id lies before this session's
\* clock and its time is reached at the clock's first tick.
OldReminder ==
    [id |-> 0 - 1, text |-> 0, time |-> 1, created |-> 0 - 1,
     scheduled |-> FALSE, method |-> "local_only", remoteId |-> 0,
     notificationId |-> 0, by |-> 0, seq |-> 0]

\* The application starts with that record in the store.
InitStored ==
    /\ now = 0
    /\ store = <<OldReminder>>
    /\ call = [c \in {Startup} \cup Calls |-> IdleCall]
    /\ inits = 0
    /\ faults = 0
    /\ rsInit = FALSE
    /\ fbInit = FALSE
    /\ fcmToken = 0
    /\ cachedToken = 0
    /\ platformToken = 1
    /\ listeners = 0
    /\ handlers = [h \in HandlerStates |-> 0]
    /\ backendToken = 0
    /\ deviceRegistered = FALSE
    /\ remote = {}

SpecStored == InitStored /\ [][Next]_vars

\* ============================================================ properties
\* The places of the collection that hold a record created by call c.
OwnRecords(reminders, c) == {i \in 1..Len(reminders) : reminders[i].by = c}

\* The step in which call c starts as a call of the given kind.
Begins(c, kind) == call[c].pc = "idle" /\ call'[c].kind = kind

\* The step in which call c ends.
Finishes(c) == call[c].pc \notin {"idle", "returned", "thrown"} /\ Ended(c)'

\* Only scheduleReminder calls have been made.
OnlyScheduleCalls == \A c \in Calls : call[c].kind \in {"none", "schedule"}

\* C1: when a scheduleReminder call with a time in the future returns, exactly
\* one record created by it is in the store; when it returns local_only (the
\* backend was not used, was unreachable or rejected the request), that record
\* has method local_only and scheduled = false.
C1_OneRecordAtReturn ==
    [][\A c \in Calls :
        (call[c].kind = "schedule" /\ Finishes(c) /\ call'[c].pc = "returned") =>
            /\ Cardinality(OwnRecords(store', c)) = 1
            /\ call'[c].res = "local_only" =>
                \A i \in OwnRecords(store', c) :
                    store'[i].method = "local_only" /\ ~store'[i].scheduled]_vars

\* The positions of scheduleReminder after its save.
AfterSavePcs == {"s_remote", "s_ok_read", "s_ok_write", "s_fb_read", "s_fb_write"}

\* C2: the step after which scheduleReminder sends its request to the push
\* backend is the write of its new record, with scheduled = false, method none
\* and no remoteId, at the end of the collection; and no later step of the call
\* that fails (the request, the follow-up update, the fallback update) changes
\* the store, so the failure takes nothing back.
C2_SavedBeforeRequest ==
    [][\A c \in Calls : call'[c].kind = "schedule" =>
        /\ (call[c].pc # "s_remote" /\ call'[c].pc = "s_remote") =>
            /\ OwnRecords(store, c) = {}
            /\ Len(store') > 0
            /\ LET r == store'[Len(store')]
               IN  /\ r.by = c /\ r.id = call'[c].data.id
                   /\ ~r.scheduled /\ r.method = "none" /\ r.remoteId = 0
            /\ remote' = remote
        /\ (/\ call[c].pc \in AfterSavePcs
            /\ \/ call'[c].pc = "thrown"
               \/ call[c].pc # "s_fb_read" /\ call'[c].pc = "s_fb_read") =>
            store' = store]_vars

\* A call threw because its fallback update could not be written, with both
\* services ready and no reminder of the call at the backend; its record is in
\* the store as it was saved.
C2_Witness ==
    \E c \in Calls :
        /\ call[c].kind = "schedule" /\ call[c].pc = "thrown"
        /\ call[c].res = "StorageError"
        /\ rsInit /\ isReady /\ c \notin remote
        /\ \E i \in OwnRecords(store, c) :
            store[i].method = "none" /\ ~store[i].scheduled

\* The scheduleReminder call ended after its save, with a result or because
\* its record was not found.
SavedAndEnded(c) ==
    /\ call[c].kind = "schedule" /\ Ended(c)
    /\ call[c].res \in {"firebase_push", "local_only", "NotFound"}

\* C3: when only scheduleReminder calls have run and no write failed, two
\* calls with different record ids that have ended after their save both have
\* their own record in the store.
C3_BothRecordsKept ==
    (OnlyScheduleCalls /\ faults = 0) =>
        \A a, b \in Calls :
            (/\ a # b /\ SavedAndEnded(a) /\ SavedAndEnded(b)
             /\ call[a].data.id # call[b].data.id) =>
                OwnRecords(store, a) # {} /\ OwnRecords(store, b) # {}

\* C4: a scheduleReminder call that the backend answered with success (its
\* reminderData holds the remote id) returns firebase_push, and then its
\* record is in the store with scheduled = true, method firebase_push and that
\* remote id.  Only scheduleReminder calls run and no write fails.
C4_PushPersisted ==
    [][\A c \in Calls :
        (/\ call[c].kind = "schedule" /\ Finishes(c)
         /\ call[c].data.remoteId # 0
         /\ OnlyScheduleCalls /\ faults' = 0) =>
            /\ call'[c].pc = "returned" /\ call'[c].res = "firebase_push"
            /\ OwnRecords(store', c) # {}
            /\ \A i \in OwnRecords(store', c) :
                /\ store'[i].scheduled /\ store'[i].method = "firebase_push"
                /\ store'[i].remoteId = call[c].data.remoteId]_vars

\* C5: scheduleReminder takes the push path, on which the schedule request is
\* sent, only when the token service is initialized and holds a token that the
\* backend has registered.
C5_RequestOnlyWhenRegistered ==
    [][\A c \in Calls :
        (/\ call'[c].kind = "schedule"
         /\ call[c].pc # "s_remote" /\ call'[c].pc = "s_remote") =>
            fbInit /\ fcmToken # 0 /\ backendToken = fcmToken]_vars

\* C6: no record of the store has scheduled = true with method none or without
\* a method.
C6_ScheduledHasMethod ==
    \A i \in 1..Len(store) :
        store[i].scheduled => store[i].method \notin {"none", "absent"}

\* C7: a record of the store has a remoteId exactly when its method is
\* firebase_push and scheduled is true.
C7_RemoteIdIffPush ==
    \A i \in 1..Len(store) :
        (store[i].remoteId # 0) <=>
            (store[i].method = "firebase_push" /\ store[i].scheduled)

\* C8: every call has at most one record of its own in the store, and every
\* record holds the text of the call that created it: no call's update lands
\* on another call's record.
C8_OwnRecordOnly ==
    /\ \A c \in Calls : Cardinality(OwnRecords(store, c)) <= 1
    /\ \A i \in 1..Len(store) : store[i].text = store[i].by

\* C9: a scheduleReminder call whose time expression does not parse, or whose
\* time is not strictly after the current time (a relative time of zero
\* included), ends at once with an invalid-time error; its step leaves the
\* store unchanged and sends nothing to the push backend, and the call takes
\* no further step.
C9_InvalidTimeRejected ==
    [][\A c \in Calls :
        /\ Begins(c, "schedule") =>
            LET t == parseReminderTime(call'[c].expr, now)
            IN  (t = NoTime \/ t <= now) =>
                    /\ call'[c].pc = "thrown"
                    /\ call'[c].res \in {"InvalidTimeFormat", "TimeNotFuture"}
                    /\ store' = store
                    /\ remote' = remote
                    /\ backendToken' = backendToken
        /\ (call[c].kind = "schedule" /\ call[c].pc = "thrown") =>
            call'[c] = call[c]]_vars

\* A call with the relative time "0 seconds" was rejected while the store
\* held a record.
C9_Witness ==
    \E c \in Calls :
        /\ call[c].kind = "schedule" /\ call[c].pc = "thrown"
        /\ call[c].res = "TimeNotFuture" /\ call[c].expr = ZeroSeconds
        /\ Len(store) > 0

\* C10: a cancelReminder call that found its record never ends with an error,
\* whatever the remote cancellation did, and the write that ends it leaves no
\* record with that id in the store (a write that fails is logged only and
\* changes nothing).
C10_CancelRemovesLocally ==
    [][\A c \in Calls :
        (call[c].kind = "cancel" /\ Finishes(c)) =>
            /\ call'[c].pc = "returned"
            /\ call'[c].res \in {"canceled_remote", "canceled_local"}
            /\ faults' = faults => FindIndex(store', call[c].target) = 0
            /\ call[c].pc = "c_rm_write"]_vars

\* A cancelReminder call returned without the remote side's confirmation, and
\* a reminder that is still at the backend has no record in the store.
C10_Witness ==
    \E c \in Calls :
        /\ call[c].kind = "cancel" /\ call[c].pc = "returned"
        /\ call[c].res = "canceled_local"
        /\ \E r \in remote : \A i \in 1..Len(store) : store[i].remoteId # r

\* Call s is a scheduleReminder call that returned a result, c cancels the id
\* of its record, and no other call has been made.
ScheduleThenCancel(s, c) ==
    /\ call[s].kind = "schedule" /\ call[s].pc = "returned"
    /\ call[c].kind = "cancel" /\ call[c].target = call[s].data.id
    /\ \A o \in Calls \ {s, c} : call[o].kind = "none"

\* C11: when a cancelReminder call for the id of a scheduleReminder call that
\* returned ends, these two being the only calls made, the store is empty
\* (its write having succeeded); and a cancelReminder call reports
\* canceledRemote = true only for a record with method firebase_push and a
\* remote id that the backend has cancelled.
C11_ScheduleThenCancel ==
    [][\A c \in Calls :
        (call[c].kind = "cancel" /\ Finishes(c)) =>
            /\ call'[c].res = "canceled_remote" =>
                /\ call[c].data.method = "firebase_push"
                /\ call[c].data.remoteId # 0
                /\ call[c].data.remoteId \notin remote'
            /\ \A s \in Calls \ {c} :
                (ScheduleThenCancel(s, c) /\ faults' = faults) =>
                    store' = <<>>]_vars

\* A reminder was scheduled by push and then cancelled, with the backend's
\* confirmation: the store is empty and the backend holds no reminder.
C11_Witness ==
    \E s, c \in Calls :
        /\ call[s].kind = "schedule" /\ call[s].pc = "returned"
        /\ call[s].res = "firebase_push"
        /\ call[c].kind = "cancel" /\ call[c].pc = "returned"
        /\ call[c].res = "canceled_remote"
        /\ store = <<>> /\ remote = {}

\* C12: once a getReminders call has returned, no record of its result has a
\* time at or before the time the call read, and no id it removed as expired
\* is in the store, so that a cancelReminder for such an id would not find
\* it.  No write has failed.
C12_EvictedStaysGone ==
    faults = 0 =>
        \A c \in Calls :
            (call[c].kind = "list" /\ call[c].pc = "returned") =>
                /\ \A i \in 1..Len(call[c].out) :
                    call[c].out[i].time > call[c].target
                /\ \A j \in 1..Len(call[c].done) :
                    FindIndex(store, call[c].done[j]) = 0

\* Call s is the only scheduleReminder call, and all other calls made are
\* getReminders calls.
ScheduleAmongLists(s) ==
    /\ call[s].kind = "schedule"
    /\ \A o \in Calls \ {s} : call[o].kind \in {"none", "list"}

\* C13: while getReminders calls are the only other calls and no write fails,
\* a scheduleReminder call that has saved its record and whose time has not
\* passed has its record in the store; and the write of a getReminders call
\* brings no id into the store that was not in it.
C13_EvictionLosesNothing ==
    [][/\ \A s \in Calls :
            (/\ ScheduleAmongLists(s)' /\ faults' = 0
             /\ call'[s].pc \in AfterSavePcs
             /\ call'[s].data.time > now') =>
                OwnRecords(store', s) # {}
       /\ \A c \in Calls :
            (/\ call[c].kind = "list" /\ call[c].pc = "l_rm_write"
             /\ call'[c] # call[c]) =>
                \A i \in 1..Len(store') :
                    FindIndex(store, store'[i].id) # 0]_vars

\* C14: a token refresh delivered to the service replaces the service's token
\* at once and leaves the token unregistered ('device_registered' not 'true')
\* until a registration of the new value succeeds; so whenever the token
\* counts as registered, the backend has the service's current token on file.
C14_RefreshUnregisters ==
    [][/\ (platformToken' # platformToken /\ listeners > 0) =>
            /\ fcmToken' = platformToken'
            /\ ~deviceRegistered'
       /\ deviceRegistered' => backendToken' = fcmToken']_vars

\* No call is in flight and no token-refresh handler has a step left.
Quiescent ==
    /\ InFlight = {}
    /\ \A h \in HandlerStates : handlers[h] = 0

\* C15: token refreshes that arrive while initialize / getFCMToken or a
\* scheduleReminder call is in flight are not lost: once every operation has
\* finished, a token held by the service is the value issued last, never an
\* older one written by an operation that started before the refresh.
\* Stated for runs without a failed storage write.
C15_LatestTokenKept ==
    (Quiescent /\ faults = 0 /\ fcmToken # 0) => fcmToken = platformToken

\* Call c1 of scheduleReminder had returned before the platform issued the
\* token that was the latest when call c2 began: a refresh occurred between
\* them.
RefreshBetween(c1, c2) ==
    /\ call[c1].kind = "schedule" /\ call[c1].pc = "returned"
    /\ call[c2].kind = "schedule"
    /\ call[c1].seen < call[c2].seen

\* C16: when a token refresh occurs between two scheduleReminder calls, the
\* request the second call builds for the push backend carries the new token
\* (or a later one), and the refresh changes neither the result nor the
\* stored record of the call that had ended.  The first part is stated for
\* runs without a failed storage write.
C16_SecondCallUsesNewToken ==
    [][/\ \A c1, c2 \in Calls :
            (/\ RefreshBetween(c1, c2) /\ faults' = 0
             /\ call[c2].pc # "s_remote" /\ call'[c2].pc = "s_remote") =>
                call'[c2].tok >= call[c2].seen
       /\ platformToken' # platformToken =>
            \A c \in Calls :
                (call[c].kind = "schedule" /\ Ended(c)) =>
                    /\ call'[c] = call[c]
                    /\ OwnRecords(store', c) = OwnRecords(store, c)]_vars

\* C17: initialize answers true only with a token acquired; without the
\* permission or without a token it answers false, and the service is marked
\* initialized exactly when the answer is true.
C17_InitSuccessNeedsToken ==
    [][(call'[Startup] # call[Startup] /\ call'[Startup].pc = "returned") =>
            /\ call'[Startup].res = "true" => fcmToken' # 0
            /\ fcmToken' = 0 => call'[Startup].res = "false"
            /\ fbInit' <=> call'[Startup].res = "true"]_vars

\* The last call of initialize ended with false: the permission was denied.
Denied ==
    /\ call[Startup].kind = "init" /\ call[Startup].pc = "returned"
    /\ call[Startup].res = "false"

\* C18: once initialize has ended on a denied permission, and as long as the
\* application does not call it again with another outcome, the push path
\* stays closed: isReady is false, no scheduleReminder call builds a request
\* for the push backend, and every scheduleReminder call whose time was
\* accepted ends with local_only.  Stated for runs of scheduleReminder calls
\* alone, without a failed storage write.
C18_DeniedMeansLocalOnly ==
    [][(Denied /\ Denied' /\ faults' = 0 /\ OnlyScheduleCalls') =>
            /\ ~isReady'
            /\ remote' \subseteq remote
            /\ \A c \in Calls :
                /\ call'[c].pc = "s_remote" => call[c].pc = "s_remote"
                /\ (call[c].kind = "schedule" /\ Finishes(c)) =>
                        call'[c].res = "local_only"]_vars

\* Every registration attempted so far for the service's token has failed:
\* initialize has returned, no refresh handler has a step left, and the
\* backend does not have the service's token on file.
RegistrationFailed ==
    /\ call[Startup].pc = "returned"
    /\ \A h \in HandlerStates : handlers[h] = 0
    /\ fcmToken # 0 /\ backendToken # fcmToken
    /\ faults = 0

\* C19: a failed registerWithBackend raises no error: initialize goes on from
\* it to its end with true, and afterwards scheduling works in local-only
\* mode: a scheduleReminder call that has saved its record continues with the
\* local-only bookkeeping.
C19_RegistrationFailureNonFatal ==
    [][/\ (/\ call[Startup].pc \in {"i_reg1", "i_reg2"}
           /\ call'[Startup] # call[Startup]) =>
                \/ call'[Startup].pc = "i_reg2"
                \/ call'[Startup].pc = "returned" /\ call'[Startup].res = "true"
       /\ \A c \in Calls :
            (/\ RegistrationFailed
             /\ call[c].kind = "schedule" /\ call[c].pc = "s_save_write"
             /\ call'[c] # call[c] /\ call'[c].pc # "thrown") =>
                /\ call'[c].pc = "s_fb_read"
                /\ call'[c].data.method = "local_only"]_vars

\* The steps still to be taken by the handlers of tokens 1..n.
RECURSIVE HandlerSteps(_, _)
HandlerSteps(hs, n) ==
    IF n = 0 THEN 0
    ELSE hs[<<"cache", n>>] + hs[<<"reg", n>>] + HandlerSteps(hs, n - 1)

\* The registration requests that may still be sent without a new event: two
\* by a call of initialize that has not passed getFCMToken's registration,
\* one by a call that has, one by every handler of a refresh.
RegistrationsDue(cl, hs) ==
    (IF cl.pc \in {"i_token", "i_cache", "i_reg1"} THEN 2
     ELSE IF cl.pc = "i_reg2" THEN 1 ELSE 0)
    + HandlerSteps(hs, MaxTokens)

C21_ScheduleRetriesRegistration ==
    [][\A c \in Calls :
        (/\ RegistrationFailed
         /\ call[c].kind = "schedule" /\ call[c].pc = "s_save_write"
         /\ call'[c] # call[c] /\ call'[c].pc # "thrown") =>
            \/ backendToken' = fcmToken'
            \/ RegistrationsDue(call'[Startup], handlers') > 0]_vars

\* C22: the request to the push backend ends (answered, refused or timed
\* out), and a call whose request failed ends in local-only mode: its
\* fallback finds the record the call saved and goes on to mark it
\* local_only.  Stated for runs of scheduleReminder calls alone, without a
\* failed storage write.
C22_TimeoutEndsLocalOnly ==
    [][\A c \in Calls :
        (/\ call[c].kind = "schedule" /\ call'[c] # call[c]
         /\ OnlyScheduleCalls' /\ faults' = 0) =>
            /\ call[c].pc = "s_remote" =>
                    call'[c].pc \in {"s_ok_read", "s_fb_read"}
            /\ (call[c].pc = "s_fb_read" /\ call[c].tok # 0) =>
                    /\ call'[c].pc = "s_fb_write"
                    /\ call'[c].data.method = "local_only"]_vars

\* C23: a failed write of saveLocalReminder ends scheduleReminder with an error
\* and without a request to the push backend, and a call whose time was
\* accepted ends with an error only by a failed storage write: a failure of
\* the push backend or of the token ends in local_only.  Stated for runs of
\* scheduleReminder calls alone.
C23_OnlyStorageFailuresAbort ==
    [][\A c \in Calls :
        (call[c].kind = "schedule" /\ OnlyScheduleCalls') =>
            /\ (/\ call[c].pc = "s_save_write" /\ call'[c] # call[c]
                /\ faults' > faults) =>
                    /\ call'[c].pc = "thrown"
                    /\ remote' = remote
            /\ (Finishes(c) /\ call'[c].pc = "thrown") =>
                    /\ call'[c].res = "StorageError"
                    /\ faults' > faults]_vars

\* What the caller of an ended scheduling attempt gets: the result with
\* success = true and a message (push, or the notification scheduled by the
\* chat screen), the result with warning = true and a message (local_only, or
\* the chat screen's "saved" note), an error with its message (thrown, or the
\* chat screen's Invalid Time alert), or nothing.
Outcome(cl) ==
    IF cl.pc = "returned" /\ cl.res \in {"firebase_push", "reminder_scheduled"}
    THEN "success"
    ELSE IF cl.pc = "returned" /\ cl.res \in {"local_only", "reminder_saved"}
    THEN "degraded"
    ELSE IF \/ cl.pc = "thrown" /\ cl.res \in {"InvalidTimeFormat",
                    "TimeNotFuture", "StorageError", "NotFound"}
            \/ cl.pc = "returned" /\ cl.res = "invalid_time_alert"
    THEN "failed"
    ELSE "silent"

\* C24: every scheduling attempt that has ended, by scheduleReminder or by the
\* chat screen's handler, ended as a success, as degraded or as failed, each
\* with its message; none ended silently.
C24_ExplicitOutcome ==
    \A c \in Calls :
        (call[c].kind \in {"schedule", "chat"} /\ Ended(c)) =>
            Outcome(call[c]) \in {"success", "degraded", "failed"}

\* One scheduleReminder call has succeeded by push and another has failed.
C24_Witness ==
    \E c1, c2 \in Calls :
        /\ call[c1].kind = "schedule" /\ Outcome(call[c1]) = "success"
        /\ call[c2].kind = "schedule" /\ Outcome(call[c2]) = "failed"

\* A record with this id is in the collection.
Known(reminders, id) == \E i \in 1..Len(reminders) : reminders[i].id = id

\* C25: cancelReminder called with an id that is not in the store ends with
\* NotFound, sends no remote cancel request and leaves the store as it is (it
\* goes on only with an id that is in the store); updateLocalReminder with
\* an id that is not in the collection it read reports NotFound and writes
\* nothing.
C25_UnknownIdNotFound ==
    [][\A c \in Calls :
        /\ Begins(c, "cancel") =>
            /\ call'[c].pc # "thrown" => Known(store, call'[c].target)
            /\ call'[c].pc = "thrown" =>
                    /\ call'[c].res = "NotFound"
                    /\ store' = store /\ remote' = remote
        /\ (/\ call[c].pc \in {"s_ok_read", "s_fb_read", "h_upd_read"}
            /\ call'[c] # call[c]
            /\ ~Known(store, call[c].data.id)) =>
                /\ store' = store
                /\ call'[c].pc \notin {"s_ok_write", "s_fb_write", "h_upd_write"}
                /\ call[c].pc = "s_fb_read" =>
                        call'[c].pc = "thrown" /\ call'[c].res = "NotFound"]_vars

\* A cancelReminder call has ended with NotFound while the store holds
\* records.
C25_Witness ==
    \E c \in Calls :
        /\ call[c].kind = "cancel" /\ call[c].pc = "thrown"
        /\ call[c].res = "NotFound"
        /\ store # <<>>

\* C26: every record of the store that scheduleReminder created (it has a
\* method) has a time strictly later than its created instant.
C26_TimeAfterCreated ==
    \A i \in 1..Len(store) :
        store[i].method # "absent" => store[i].time > store[i].created

\* ------------------------------------------------ C27
\* A classification that succeeded and names the reminder category with a
\* time and a confidence at or above the threshold.
ReminderIntent(r) ==
    /\ r.status = "ok" /\ r.success
    /\ r.intent = "REMINDER" /\ r.hasTime
    /\ r.confidence >= Threshold

\* C27: the step of sendMessage that receives the classification routes the
\* utterance to the Reminder path only when the intent is the reminder
\* category, a time is present and the confidence is at least 0.8; it does
\* so for every such successful classification, 0.80 included; every other
\* classification (0.79 among them) goes to the Chat path, for which no chat
\* request has been made yet.
C27_RoutingThreshold ==
    [][\A c \in Calls :
        (call[c].pc = "r_classify" /\ call'[c] # call[c]) =>
            LET r == call'[c].intent
            IN  /\ call'[c].route = "reminder" =>
                    /\ r.intent = "REMINDER" /\ r.hasTime
                    /\ r.confidence >= Threshold
                /\ ReminderIntent(r) => call'[c].route = "reminder"
                /\ call'[c].route # "reminder" =>
                    /\ call'[c].kind = "send" /\ call'[c].pc = "r_chat"
                    /\ call'[c].route \in {"chat", "outage"}
                    /\ call'[c].chats = 0]_vars

\* Both sides of the boundary: an utterance classified as a reminder with a
\* time at 0.79 went to Chat, one at 0.80 is on the Reminder path.
C27_Witness ==
    \E c1, c2 \in Calls :
        /\ call[c1].route = "chat" /\ call[c1].pc = "returned"
        /\ call[c1].intent.success /\ call[c1].intent.intent = "REMINDER"
        /\ call[c1].intent.hasTime /\ call[c1].intent.confidence = Threshold - 1
        /\ call[c2].route = "reminder" /\ call[c2].pc = "h_save_read"
        /\ call[c2].intent.confidence = Threshold

\* ------------------------------------------------ C28
\* The classification call failed: it threw, it answered without data or
\* without the fields, or the answer says it did not succeed.
ClassificationFailed(r) == r.status # "ok" \/ ~r.success

\* C28: when the intent classification fails in any way, the step that
\* receives the failure hands the utterance to the Chat path, and the step
\* after it makes the chat request and ends sendMessage normally: after a
\* classifier outage exactly one chat request has been made.
C28_ClassifierFailureRoutesToChat ==
    [][\A c \in Calls :
        /\ (/\ call[c].pc = "r_classify" /\ call'[c] # call[c]
            /\ ClassificationFailed(call'[c].intent)) =>
                /\ call'[c].kind = "send" /\ call'[c].pc = "r_chat"
                /\ call'[c].route \in {"chat", "outage"}
        /\ (/\ call[c].pc = "r_chat" /\ call'[c] # call[c]
            /\ ClassificationFailed(call[c].intent)
            /\ call[c].route \in {"chat", "outage"}) =>
                /\ call'[c].pc = "returned"
                /\ call'[c].chats = 1]_vars

\* The classifier was unreachable and the chat request was made.
C28_Witness ==
    \E c \in Calls :
        /\ call[c].intent.status = "network_error"
        /\ call[c].route = "outage"
        /\ call[c].pc = "returned" /\ call[c].chats = 1

\* ------------------------------------------------ C29
\* C29: when sendMessage has ended for an utterance whose Reminder path
\* failed (the time did not parse, was not in the future, or the store could
\* not be written), the chat backend has been called exactly once for it.
C29_ReminderFailureFallsBackOnce ==
    \A c \in Calls :
        (/\ call[c].pc = "returned"
         /\ \/ call[c].route = "fallback"
            \/ call[c].route = "reminder" /\ Outcome(call[c]) = "failed") =>
                call[c].chats = 1

\* ------------------------------------------------ C30
\* The tolerance of the comparison: one second.
Tolerance == SecondMs

\* The unit of a relative expression.
UnitOf(ts) ==
    IF ts.minute THEN "minute" ELSE IF ts.hour THEN "hour" ELSE "second"

\* C30: for "N minutes", "N hours" and "N seconds" parseReminderTime returns
\* the instant of the call plus N of that unit, within the tolerance.
C30_RelativeDurationExact ==
    \A c \in Calls :
        (/\ call[c].kind = "parse" /\ call[c].pc = "returned"
         /\ call[c].expr \in ParseExprs) =>
            LET expected == call[c].data.created
                            + call[c].expr.int * UnitMs(UnitOf(call[c].expr))
            IN  /\ call[c].data.time >= expected - Tolerance
                /\ call[c].data.time <= expected + Tolerance

\* ------------------------------------------------ C31
\* A clock match with valid hours and minutes: 0..23 without AM/PM, 1..12
\* with it.
ValidClock(clock) ==
    /\ clock[2] \in 0..59
    /\ IF clock[3] = "" THEN clock[1] \in 0..23 ELSE clock[1] \in 1..12

\* The reading of the local clock at an instant, in milliseconds of the day.
WallClock(t) == LocalTime(t) % DayMs

\* C31: for a clock-time input with valid hours parseReminderTime returns an
\* instant at which the local clock shows that time, strictly later than the
\* instant of the call and less than 24 hours after it.
C31_ClockTimeNextOccurrence ==
    \A c \in Calls :
        (/\ call[c].kind = "parse" /\ call[c].pc = "returned"
         /\ call[c].expr \in ClockExprs
         /\ ValidClock(call[c].expr.clock)) =>
            /\ call[c].data.time > call[c].data.created
            /\ call[c].data.time - call[c].data.created < DayMs
            /\ WallClock(call[c].data.time)
                = call[c].target * HourMs + call[c].expr.clock[2] * MinuteMs

\* ------------------------------------------------ C32
\* The forms an input matches.
IsRelative(ts) == ts.isString /\ (ts.minute \/ ts.hour \/ ts.second)
IsAbsolute(ts) == ts.isString /\ ts.date >= 0
IsClock(ts) == ts.isString /\ ts.clock # <<>>

\* What the relative form gives for ts at t: the sum for one of the unit
\* words of ts, or an Invalid Date.
RelativeResults(ts, t) ==
    IF ts.int = Huge THEN {InvalidDate}
    ELSE {SetLocal(t, (IF ts.int < 0 THEN 0 ELSE ts.int) * UnitMs(u)) :
            u \in {v \in Units : \/ v = "minute" /\ ts.minute
                                 \/ v = "hour" /\ ts.hour
                                 \/ v = "second" /\ ts.second}}

\* C32: parseReminderTime gives the result of the first form that matches,
\* in the order relative duration, absolute date, clock time (a clock result
\* being an instant after the call and at most a day and the zone's hour
\* later), and it gives null exactly when none of the three matches.
C32_FirstMatchWins ==
    \A c \in Calls :
        (call[c].kind = "parse" /\ call[c].pc = "returned") =>
            LET ts == call[c].expr
                t == call[c].data.created
                r == call[c].data.time
            IN  /\ IsRelative(ts) => r \in RelativeResults(ts, t)
                /\ (~IsRelative(ts) /\ IsAbsolute(ts)) => r = ts.date
                /\ (~IsRelative(ts) /\ ~IsAbsolute(ts) /\ IsClock(ts)) =>
                        /\ r > t
                        /\ r - t <= DayMs + HourMs
                /\ r = NoTime <=>
                        ~(IsRelative(ts) \/ IsAbsolute(ts) \/ IsClock(ts))

\* An input that matches all three forms got the relative result, one that
\* matches the absolute and the clock form got the absolute one.
C32_Witness ==
    \E c1, c2 \in Calls :
        /\ call[c1].kind = "parse" /\ call[c1].pc = "returned"
        /\ IsRelative(call[c1].expr) /\ IsAbsolute(call[c1].expr)
        /\ IsClock(call[c1].expr)
        /\ call[c1].data.time = call[c1].data.created + 5 * MinuteMs
        /\ call[c2].kind = "parse" /\ call[c2].pc = "returned"
        /\ ~IsRelative(call[c2].expr) /\ IsAbsolute(call[c2].expr)
        /\ IsClock(call[c2].expr)
        /\ call[c2].data.time = call[c2].expr.date

\* ------------------------------------------------ C33
\* C33: in the clock branch the hour used is 0 for 12 AM, 12 for 12 PM,
\* h + 12 for any other PM hour h and h itself otherwise; on an ordinary day
\* the local clock shows that hour, and the minutes given, at the instant
\* returned.
C33_AmPmHours ==
    \A c \in Calls :
        (/\ call[c].kind = "parse" /\ call[c].pc = "returned"
         /\ call[c].expr \in ClockExprs) =>
            LET h == call[c].expr.clock[1]
                m == call[c].expr.clock[2]
                ampm == call[c].expr.clock[3]
                hours == call[c].target
            IN  /\ (ampm = "AM" /\ h = 12) => hours = 0
                /\ (ampm = "PM" /\ h = 12) => hours = 12
                /\ (ampm = "PM" /\ h # 12) => hours = h + 12
                /\ (ampm = "AM" /\ h # 12) => hours = h
                /\ ampm = "" => hours = h
                /\ call[c].data.created = OrdinaryInstant =>
                        WallClock(call[c].data.time)
                            = hours * HourMs + m * MinuteMs

\* "12:00 AM" and "12:00 PM" were parsed on the ordinary day: midnight and
\* noon.
C33_Witness ==
    \E c1, c2 \in Calls :
        /\ call[c1].kind = "parse" /\ call[c1].expr = Clock(12, 0, "AM")
        /\ call[c1].data.created = OrdinaryInstant
        /\ call[c1].target = 0 /\ WallClock(call[c1].data.time) = 0
        /\ call[c2].kind = "parse" /\ call[c2].expr = Clock(12, 0, "PM")
        /\ call[c2].target = 12
        /\ WallClock(call[c2].data.time) = 12 * HourMs

\* ------------------------------------------------ C34
\* C34: whatever the input, text or not, parseReminderTime returns an
\* instant or null, and two calls with the same input at the same instant
\* return the same.
C34_InstantOrNull ==
    \A c \in Calls :
        (call[c].kind = "parse" /\ call[c].pc = "returned") =>
            /\ call[c].data.time = NoTime \/ call[c].data.time >= 0
            /\ \A o \in Calls :
                (/\ call[o].kind = "parse" /\ call[o].pc = "returned"
                 /\ call[o].expr = call[c].expr
                 /\ call[o].data.created = call[c].data.created) =>
                    call[o].data.time = call[c].data.time

C36_DistinctIds ==
    \A i, j \in 1..Len(store) : i # j => store[i].id # store[j].id

\* ------------------------------------------------ C37
\* The record of the collection that updateLocalReminder(id) addresses has
\* the scheduled, method and remoteId of d.
SameStatus(reminders, d) ==
    LET i == FindIndex(reminders, d.id)
    IN  /\ i # 0
        /\ reminders[i].scheduled = d.scheduled
        /\ reminders[i].method = d.method
        /\ reminders[i].remoteId = d.remoteId

\* C37: the step with which scheduleReminder returns its result leaves under
\* the id of its reminderData a record with the scheduled, method and
\* remoteId of that reminderData, and afterwards no record saved by a call
\* that has returned a result has method none (in runs without storage
\* failures, with scheduleReminder calls only and distinct ids in the store).
C37_ResultMatchesStore ==
    [][\A c \in Calls :
        (/\ call'[c].kind = "schedule" /\ call'[c].pc = "returned"
         /\ OnlyScheduleCalls' /\ faults' = 0
         /\ C36_DistinctIds /\ C36_DistinctIds') =>
            /\ Finishes(c) => SameStatus(store', call[c].data)
            /\ \A i \in OwnRecords(store', c) : store'[i].method # "none"]_vars

\* ------------------------------------------------ C38
\* C38: when a scheduleReminder call has finished and the reminder that the
\* push backend accepted from it has not been cancelled, the store holds a
\* record with method firebase_push and the remote id of that reminder (here
\* for a call that is the only one made).
C38_RemoteHasLocalRecord ==
    \A c \in Calls :
        (/\ call[c].kind = "schedule" /\ Ended(c)
         /\ c \in remote
         /\ \A o \in Calls \ {c} : call[o].pc = "idle") =>
            \E i \in 1..Len(store) :
                /\ store[i].method = "firebase_push"
                /\ store[i].remoteId = c

\* ------------------------------------------------ C39
\* C39: with the service initialized, however often, a token refresh event
\* starts exactly one handler for the refreshed token, and a handler whose
\* write to the cache has succeeded sends one registration request, which
\* carries the token of its event.
C39_OneRegistrationPerRefresh ==
    [][/\ (platformToken' # platformToken /\ fbInit) =>
            handlers'[<<"cache", platformToken'>>]
                = handlers[<<"cache", platformToken'>>] + 1
       /\ \A k \in 1..MaxTokens :
            (/\ handlers'[<<"cache", k>>] < handlers[<<"cache", k>>]
             /\ faults' = faults) =>
                handlers'[<<"reg", k>>] = handlers[<<"reg", k>>] + 1]_vars

====
